---------------------------- MODULE Spec2Model ----------------------------
(***************************************************************************)
(* Model of omicron/parameters.py (PyOmicron): the module-level DEFAULTS   *)
(* table, generate_parameters_files() and validate_parameters().           *)
(*                                                                         *)
(* Python values are modelled as follows.                                  *)
(*   - a dict is a function whose DOMAIN is the dict's key set;            *)
(*   - option values, attribute values and keys are strings; Python's     *)
(*     None is the token PyNone, distinct from the string 'None';          *)
(*   - the multi-line `channels` option and a version string are           *)
(*     sequences of one-character strings, so that str.split('\n') and     *)
(*     the lexicographic str comparison are computed, not assumed;         *)
(*   - a parameters file is the set of its <<group, attribute, value>>     *)
(*     lines plus the sequence of its DATA CHANNELS lines (the column      *)
(*     padding of the format strings is not modelled);                     *)
(*   - an exception aborts the call where it is raised: what the call      *)
(*     mutated before that point stays mutated;                            *)
(*   - the interpreter is Python 2 (dict.iteritems, line 157), and no      *)
(*     option value is a list or tuple (line 159 is not reached);          *)
(*   - the real-valued diagnostic `flow` of line 211 is not computed, only *)
(*     the domain of its logarithm.                                        *)
(***************************************************************************)
EXTENDS Integers, Sequences, FiniteSets, TLC

VARIABLES
    DEFAULTS,   \* the module-level table (parameters.py:33-45), shared by all calls
    config,     \* the caller's ConfigParser section after the latest call
    call,       \* the arguments of the latest call, as passed
    dirs,       \* directories that exist under rundir
    written,    \* the files written by the latest call, in order
    result,     \* how the latest call ended, and the list it returned
    ncalls,     \* number of generate_parameters_files calls made
    vargs,      \* arguments of validate_parameters
    vresult     \* how validate_parameters ended

vars == <<DEFAULTS, config, call, dirs, written, result, ncalls, vargs, vresult>>

bvars == <<DEFAULTS, config, call, dirs, written, result, ncalls>>

vvars == <<vargs, vresult>>

---------------------------------------------------------------------------
(* Bounds of the model. *)

MaxCalls == 2

MaxEntryLen == 6

MaxLimit == 3

MaxDur == 9

MaxNeg == 2

MaxSampling == 3

---------------------------------------------------------------------------
(* Python dict helpers. *)

EmptyDict == [x \in {} |-> ""]

Put(d, k, v) == [x \in (DOMAIN d) \cup {k} |-> IF x = k THEN v ELSE d[x]]

Pop(d, k) == [x \in (DOMAIN d) \ {k} |-> d[x]]

Restrict(d, S) == [x \in (DOMAIN d) \cap S |-> d[x]]

PartialMaps(K, V) == UNION {[S -> V] : S \in SUBSET K}

\* the dicts over K and V with at most one key
SmallDicts(K, V) == {EmptyDict} \cup {(k :> v) : k \in K, v \in V}

PyNone == "<None>"

---------------------------------------------------------------------------
(* validate_parameters (parameters.py:171-215) *)

\* assert segment <= chunk
Check1(chunk, segment) == segment <= chunk

\* assert overlap <= segment
Check2(segment, overlap) == overlap <= segment

\* assert overlap != 0
Check3(overlap) == overlap # 0

\* assert overlap % 2 == 0   (Python's % is the floored modulo, as TLA+'s)
Check4(overlap) == overlap % 2 = 0

Check5_strict(segment, overlap) == segment > 2 * overlap

\* assert segment >= (2 * overlap)
Check5(segment, overlap) == segment >= 2 * overlap

\* ceil(log(x) / log(2.)) for an integer x >= 1: the least k with 2^k >= x
RECURSIVE CeilLog2From(_, _)
CeilLog2From(x, k) == IF 2 ^ k >= x THEN k ELSE CeilLog2From(x, k + 1)

CeilLog2(x) == CeilLog2From(x, 0)

\* '%d' % v for the rational v = n / d with d > 0: truncation towards zero
TruncDiv(n, d) == IF n >= 0 THEN n \div d ELSE -((-n) \div d)

Passed == [status |-> "returned", line |-> 0, msg |-> "", value |-> 0]

Raised(exc, line, msg, value) ==
    [status |-> exc, line |-> line, msg |-> msg, value |-> value]

psdsize_default_single(sampling) == sampling

\* psdsize = 2 * sampling
psdsize_default(sampling) == 2 * sampling

\* assert (chunkp - overlapp) >= 2 * psdsize
Check7(chunk, overlap, sampling, psdsize) ==
    chunk * sampling - overlap * sampling >= 2 * psdsize

\* Lines 201-215: the frequency-resolution bound.  frange[0] is the rational
\* fnum / fden (fden > 0); sampling is a non-negative integer.
frequency_bound(a) ==
    LET low1    == a.fnum < a.fden                       \* frange[0] < 1
        \* floor(sampling / frange[0]), for frange[0] > 0
        q       == (a.sampling * a.fden) \div a.fnum
        x       == 10 * q
        psdsize == IF low1 THEN 2 * (2 ^ CeilLog2(x))
                           ELSE psdsize_default(a.sampling)
    IN  IF low1 /\ a.fnum = 0
          THEN Raised("ZeroDivisionError", 204, "float division by zero", 0)
        ELSE IF low1 /\ (a.fnum < 0 \/ x <= 0)   \* log of a number <= 0
          THEN Raised("ValueError", 205, "math domain error", 0)
        ELSE IF a.sampling = 0
          THEN Raised("ZeroDivisionError", 208, "division by zero", 0)
        ELSE IF a.chunk - a.overlap <= 0
          THEN Raised("ValueError", 211, "math domain error", 0)
        ELSE IF ~Check7(a.chunk, a.overlap, a.sampling, psdsize)
          THEN Raised("AssertionError", 212,
                      "Chunk duration not large enough to resolve lower-frequency bound",
                      TruncDiv(2 * psdsize + a.overlap * a.sampling, a.sampling))
        ELSE Passed

validate(a) ==
    LET dchunk == a.chunk - a.overlap
        dseg   == a.segment - a.overlap
    IN  IF ~Check1(a.chunk, a.segment)
          THEN Raised("AssertionError", 190,
                      "Segment length is greater than chunk length", 0)
        ELSE IF ~Check2(a.segment, a.overlap)
          THEN Raised("AssertionError", 191,
                      "Overlap length is greater than segment length", 0)
        ELSE IF ~Check3(a.overlap)
          THEN Raised("AssertionError", 192,
                      "Omicron cannot run with zero overlap", 0)
        ELSE IF ~Check4(a.overlap)
          THEN Raised("AssertionError", 193,
                      "Padding (overlap/2) is non-integer", 0)
        ELSE IF ~Check5(a.segment, a.overlap)
          THEN Raised("AssertionError", 194,
                      "Overlap is too large, cannot be more than 50%", 0)
        ELSE IF dseg = 0
          THEN Raised("ZeroDivisionError", 198,
                      "integer division or modulo by zero", 0)
        ELSE IF dchunk % dseg # 0
          THEN Raised("AssertionError", 198,
                      "Chunk duration doesn't allow an integer number of segments",
                      dchunk % dseg)
        ELSE IF ~a.has_sampling \/ ~a.has_frange
          THEN Passed
        ELSE frequency_bound(a)

NoResult == [status |-> "none", line |-> 0, msg |-> "", value |-> 0]

Durations == (0 - MaxNeg) .. MaxDur

\* frange[0] as fnum/fden: -1/2, 0, 1/2, 1, 3/2, 2
FrangeLows == {[fnum |-> n, fden |-> 2] : n \in {-1, 0, 1, 2, 3, 4}}

ValidateArgs ==
    {[chunk |-> c, segment |-> s, overlap |-> o,
      has_frange |-> hf, fnum |-> f.fnum, fden |-> f.fden,
      has_sampling |-> hs, sampling |-> sm] :
        c \in Durations, s \in Durations, o \in Durations,
        hf \in BOOLEAN, f \in FrangeLows,
        hs \in BOOLEAN, sm \in 0 .. MaxSampling}

\* An omitted frange / sampling is None: its value fields are then unused.
WellFormedArgs(a) ==
    /\ (~a.has_frange => a.fnum = 2 /\ a.fden = 2)
    /\ (~a.has_sampling => a.sampling = 0)

validate_parameters ==
    /\ vresult.status = "none"
    /\ vresult' = validate(vargs)
    /\ UNCHANGED <<vargs, bvars>>

---------------------------------------------------------------------------
(* Module-level tables (parameters.py:33-50) *)

DefaultsTable ==
    [PARAMETER |-> ("CLUSTERING" :> "TIME"),
     OUTPUT    |-> ("PRODUCTS" :> "triggers") @@ ("VERBOSITY" :> "2") @@
                   ("FORMAT" :> "rootxml") @@ ("NTRIGGERMAX" :> "10000000.0"),
     DATA      |-> EmptyDict]

UNUSED_PARAMS == {"state-flag", "frametype", "state-channel", "state-frametype"}

OMICRON_PARAM_MAP == ("sample-frequency" :> <<"DATA", "SAMPLEFREQUENCY">>)

\* [None, 'None', 'none', '']
UnsetValues == {PyNone, "None", "none", ""}

---------------------------------------------------------------------------
(* String functions of the Python runtime, computed on the modelled values *)

\* ''.join(key.split('-')).upper(), tabulated for the keys of the model
okey(key) ==
    CASE key = "chunk-duration"   -> "CHUNKDURATION"
      [] key = "segment-duration" -> "SEGMENTDURATION"
      [] key = "overlap-duration" -> "OVERLAPDURATION"
      [] key = "clustering"       -> "CLUSTERING"
      [] key = "products"         -> "PRODUCTS"
      [] key = "sample-frequency" -> "SAMPLEFREQUENCY"
      [] key = "samplefrequency"  -> "SAMPLEFREQUENCY"
      [] key = "timing"           -> "TIMING"
      [] key = "fftplan"          -> "FFTPLAN"
      [] key = "frequency-range"  -> "FREQUENCYRANGE"
      [] key = "q-range"          -> "QRANGE"
      [] key = "flow"             -> "FLOW"
      [] key = "fhigh"            -> "FHIGH"
      [] key = "qlow"             -> "QLOW"
      [] key = "qhigh"            -> "QHIGH"
      [] key = "state-flag"       -> "STATEFLAG"
      [] key = "frametype"        -> "FRAMETYPE"

\* '%s' % config.getfloat(section, option), for the option values of the
\* model that float() accepts; float() raises ValueError on the others
FloatStr == ("10" :> "10.0") @@ ("20" :> "20.0") @@ ("4" :> "4.0") @@
            ("100.5" :> "100.5")

IsFloat(v) == v \in DOMAIN FloatStr

\* ord() of the characters of a version string
Ord == ("0" :> 48) @@ ("1" :> 49) @@ ("2" :> 50) @@ ("3" :> 51) @@
       ("r" :> 114) @@ ("v" :> 118)

\* a < b for Python str: lexicographic on the characters
RECURSIVE StrLess(_, _)
StrLess(a, b) ==
    IF b = <<>> THEN FALSE
    ELSE IF a = <<>> THEN TRUE
    ELSE IF Ord[Head(a)] < Ord[Head(b)] THEN TRUE
    ELSE IF Ord[Head(a)] > Ord[Head(b)] THEN FALSE
    ELSE StrLess(Tail(a), Tail(b))

\* omicron_version >= 'v2r2'
V2R2 == <<"v", "2", "r", "2">>

RestructuredVersion(version) == ~StrLess(version, V2R2)

\* s.split('\n'): cur is the line being read, acc the lines read
RECURSIVE SplitFrom(_, _, _)
SplitFrom(s, cur, acc) ==
    IF s = <<>> THEN Append(acc, cur)
    ELSE IF Head(s) = "\n" THEN SplitFrom(Tail(s), <<>>, Append(acc, cur))
    ELSE SplitFrom(Tail(s), Append(cur, Head(s)), acc)

Split(s) == SplitFrom(s, <<>>, <<>>)

Min(a, b) == IF a <= b THEN a ELSE b

\* seq[a:b] for 0 <= a <= b
Slice(seq, a, b) == SubSeq(seq, a + 1, Min(b, Len(seq)))

---------------------------------------------------------------------------
(* generate_parameters_files (parameters.py:53-168) *)

cachefile == "frames.lcf"

pardir == "run/parameters"

trigdir == "run/triggers"

Ok(v) == [status |-> "ok", key |-> "", val |-> v]

Fail(exc, key, v) == [status |-> exc, key |-> key, val |-> v]

\* Lines 101-111 for one (range_, low_, high_): opt is the section's options
reformat_one(opt, range_, low_, high_) ==
    IF range_ \notin DOMAIN opt /\ low_ \in DOMAIN opt
    THEN IF ~IsFloat(opt[low_]) THEN Fail("ValueError", low_, opt)
         ELSE IF high_ \notin DOMAIN opt THEN Fail("NoOptionError", high_, opt)
         ELSE IF ~IsFloat(opt[high_]) THEN Fail("ValueError", high_, opt)
         ELSE Ok(Pop(Pop(Put(opt, range_,
                             FloatStr[opt[low_]] \o " " \o FloatStr[opt[high_]]),
                         low_), high_))
    ELSE Ok(Pop(Pop(opt, low_), high_))

\* Lines 99-111
reformat(opt) ==
    LET r1 == reformat_one(opt, "frequency-range", "flow", "fhigh")
    IN  IF r1.status # "ok" THEN r1
        ELSE reformat_one(r1.val, "q-range", "qlow", "qhigh")

set_param_keeps_unset(params, key, val) ==
    IF key \in DOMAIN OMICRON_PARAM_MAP
    THEN LET group == OMICRON_PARAM_MAP[key][1]
             attr  == OMICRON_PARAM_MAP[key][2]
         IN  [params EXCEPT ![group] = Put(@, attr, val)]
    ELSE [params EXCEPT !.PARAMETER = Put(@, okey(key), val)]

\* Lines 126-136: one key of cpparams or kwargs
set_param(params, key, val) ==
    IF key \in DOMAIN OMICRON_PARAM_MAP
    THEN LET group == OMICRON_PARAM_MAP[key][1]
             attr  == OMICRON_PARAM_MAP[key][2]
         IN  [params EXCEPT ![group] = Put(@, attr, val)]
    ELSE IF val \in UnsetValues
    THEN [params EXCEPT !.PARAMETER = Pop(@, okey(key))]
    ELSE [params EXCEPT !.PARAMETER = Put(@, okey(key), val)]

\* Line 125: for key in d (keys is what is left to visit)
RECURSIVE set_dict(_, _, _)
set_dict(params, d, keys) ==
    IF keys = {} THEN params
    ELSE LET key == CHOOSE k \in keys : TRUE
         IN  set_dict(set_param(params, key, d[key]), d, keys \ {key})

set_params_kwargs_first(params, cpparams, kwargs) ==
    set_dict(set_dict(params, kwargs, DOMAIN kwargs), cpparams, DOMAIN cpparams)

\* Line 124: for d in [cpparams, kwargs]
set_params(params, cpparams, kwargs) ==
    set_dict(set_dict(params, cpparams, DOMAIN cpparams), kwargs, DOMAIN kwargs)

\* Lines 141-147
restructure(params) ==
    LET P == params.PARAMETER
    IN  IF "CHUNKDURATION" \notin DOMAIN P
        THEN Fail("KeyError", "CHUNKDURATION", params)
        ELSE
        LET P1 == Put(Pop(P, "CHUNKDURATION"), "PSDLENGTH", P["CHUNKDURATION"])
        IN  IF "SEGMENTDURATION" \notin DOMAIN P1
            THEN Fail("KeyError", "SEGMENTDURATION",
                      [params EXCEPT !.PARAMETER = P1])
            ELSE
            LET P2 == Pop(P1, "SEGMENTDURATION")
            IN  IF "OVERLAPDURATION" \notin DOMAIN P2
                THEN Fail("KeyError", "OVERLAPDURATION",
                          [params EXCEPT !.PARAMETER = P2])
                ELSE
                LET P3 == Put(Pop(P2, "OVERLAPDURATION"), "TIMING",
                              P1["SEGMENTDURATION"] \o " " \o P2["OVERLAPDURATION"])
                    P4 == IF "FFTPLAN" \in DOMAIN P3 THEN P3
                          ELSE Put(P3, "FFTPLAN", "FFTW_ESTIMATE")
                IN  Ok([params EXCEPT !.PARAMETER = P4])

\* Lines 156-162: the parameter lines of one file
FileLines(params) ==
    UNION {{<<group, key, params[group][key]>> : key \in DOMAIN params[group]} :
           group \in DOMAIN params}

\* Line 154
ParFileName(i) == pardir \o "/parameters_" \o ToString(i) \o ".txt"

chunk_of_short(channellist, channellimit, i) ==
    Slice(channellist, i * channellimit, (i + 1) * channellimit - 1)

\* Line 153
chunk_of(channellist, channellimit, i) ==
    Slice(channellist, i * channellimit, (i + 1) * channellimit)

\* Line 152
more_files(channellist, channellimit, i) == i * channellimit < Len(channellist)

\* Lines 151-167: the files written from index i on
RECURSIVE write_files(_, _, _, _)
write_files(params, channellist, channellimit, i) ==
    IF more_files(channellist, channellimit, i)
    THEN <<[pfile    |-> ParFileName(i),
            lines    |-> FileLines(params),
            channels |-> chunk_of(channellist, channellimit, i)]>>
         \o write_files(params, channellist, channellimit, i + 1)
    ELSE <<>>

Outcome(D, cfg, files, status, key) ==
    [DEFAULTS |-> D, config |-> cfg, written |-> files,
     result |-> [status |-> status, key |-> key,
                 parfiles |-> [j \in 1 .. Len(files) |->
                                 <<files[j].pfile, files[j].channels>>]]]

\* The whole call, from the table D it finds.  params = DEFAULTS.copy() is a
\* shallow copy: params[group] is DEFAULTS[group], so every write to params
\* is a write to the module-level table.
generate(D, cfg, kwargs, version, channellimit) ==
    LET r1   == reformat(cfg.opt)
        cfg1 == [cfg EXCEPT !.opt = r1.val]
    IN  IF r1.status # "ok"
        THEN Outcome(D, cfg1, <<>>, r1.status, r1.key)
        ELSE IF ~cfg1.haschannels
        THEN Outcome(D, cfg1, <<>>, "KeyError", "channels")
        ELSE
        LET channellist == Split(cfg1.channels)
            cpparams    == Restrict(cfg1.opt, (DOMAIN cfg1.opt) \ UNUSED_PARAMS)
            D1 == [D EXCEPT !.DATA = Put(@, "FFL", cachefile),
                            !.OUTPUT = Put(@, "DIRECTORY", trigdir)]
            D2 == set_params(D1, cpparams, kwargs)
            r3 == IF RestructuredVersion(version) THEN restructure(D2) ELSE Ok(D2)
        IN  IF r3.status # "ok"
            THEN Outcome(r3.val, cfg1, <<>>, r3.status, r3.key)
            ELSE Outcome(r3.val, cfg1,
                         write_files(r3.val, channellist, channellimit, 0),
                         "returned", "")

generate_parameters_files(cfg, kwargs, version, channellimit) ==
    LET g == generate(DEFAULTS, cfg, kwargs, version, channellimit)
    IN  /\ DEFAULTS' = g.DEFAULTS
        /\ config' = g.config
        /\ call' = [config |-> cfg, kwargs |-> kwargs, version |-> version,
                    channellimit |-> channellimit]
        /\ dirs' = dirs \cup {pardir, trigdir}
        /\ written' = g.written
        /\ result' = g.result
        /\ ncalls' = ncalls + 1
        /\ UNCHANGED vvars

---------------------------------------------------------------------------
(* Inputs.  Within one mapping no two keys are written to the same          *)
(* attribute, so the order in which Python visits a dict's keys does not    *)
(* change the outcome.                                                      *)

Section(opt, channels) ==
    [opt |-> opt, haschannels |-> TRUE, channels |-> channels]

\* a section without the reserved `channels` option
SectionNoChannels(opt) ==
    [opt |-> opt, haschannels |-> FALSE, channels |-> <<>>]

TwoChannels == <<"a", "\n", "b">>

V1R3 == <<"v", "1", "r", "3">>

V10R1 == <<"v", "1", "0", "r", "1">>

\* channellimit=10 (line 54)
DefaultLimit == 10

TimingKeys == {"chunk-duration", "segment-duration", "overlap-duration"}

TimingOpts == ("chunk-duration" :> "64") @@ ("segment-duration" :> "8") @@
              ("overlap-duration" :> "2")

Calls(sections, kwargss, versions, limits) ==
    {[config |-> c, kwargs |-> k, version |-> v, channellimit |-> l] :
        c \in sections, k \in kwargss, v \in versions, l \in limits}

\* Calls that supply any part of the three durations, under old and new versions
TimingCalls ==
    Calls({Section(Restrict(TimingOpts, S), TwoChannels) : S \in SUBSET TimingKeys}
            \cup {SectionNoChannels(TimingOpts),
                  Section(Put(TimingOpts, "state-flag", "L1:DMT-ANALYSIS_READY:1"),
                          TwoChannels)},
          {EmptyDict, ("chunk-duration" :> "32"), ("overlap-duration" :> PyNone),
           ("fftplan" :> "FFTW_MEASURE")},
          {V1R3, V2R2, V10R1},
          {DefaultLimit})

\* Calls with at most one more option and at most one override
OverrideCalls ==
    Calls({Section(TimingOpts @@ o, TwoChannels) :
              o \in SmallDicts({"clustering"}, {"1", "", "None"}) \cup
                    SmallDicts({"products"}, {""}) \cup
                    SmallDicts({"sample-frequency", "timing"}, {"1"})},
          SmallDicts({"clustering"}, {"2", PyNone}) \cup
              SmallDicts({"products"}, {"none"}) \cup
              SmallDicts({"sample-frequency", "samplefrequency", "timing",
                          "chunk-duration"}, {"2"}),
          {V1R3, V2R2},
          {DefaultLimit})

\* Calls with any part of the legacy range options
LegacyCalls ==
    Calls({Section(f @@ q, TwoChannels) :
              f \in {o \in PartialMaps({"frequency-range", "flow", "fhigh"},
                                       {"30 100", "10", "20", ""}) :
                        /\ "frequency-range" \in DOMAIN o => o["frequency-range"] = "30 100"
                        /\ "flow" \in DOMAIN o => o["flow"] \in {"10", ""}
                        /\ "fhigh" \in DOMAIN o => o["fhigh"] = "20"},
              q \in {o \in PartialMaps({"q-range", "qlow", "qhigh"},
                                       {"4 100", "4", "100.5"}) :
                        /\ "q-range" \in DOMAIN o => o["q-range"] = "4 100"
                        /\ "qlow" \in DOMAIN o => o["qlow"] = "4"
                        /\ "qhigh" \in DOMAIN o => o["qhigh"] = "100.5"}},
          {EmptyDict}, {V1R3}, {DefaultLimit})

\* the strings of length <= n over the characters cs
RECURSIVE Strings(_, _)
Strings(cs, n) ==
    IF n = 0 THEN {<<>>}
    ELSE LET shorter == Strings(cs, n - 1)
         IN  shorter \cup {Append(s, c) : s \in shorter, c \in cs}

\* Calls with every `channels` value of up to MaxEntryLen characters
ChunkCalls ==
    Calls({Section(EmptyDict, s) : s \in Strings({"a", "b", "\n"}, MaxEntryLen)},
          {EmptyDict}, {V1R3}, 1 .. MaxLimit)

NoCall == [config |-> SectionNoChannels(EmptyDict), kwargs |-> EmptyDict,
           version |-> <<>>, channellimit |-> 0]

NoOutcome == [status |-> "none", key |-> "", parfiles |-> <<>>]

NoArgs == [chunk |-> 0, segment |-> 0, overlap |-> 0,
           has_frange |-> FALSE, fnum |-> 2, fden |-> 2,
           has_sampling |-> FALSE, sampling |-> 0]

---------------------------------------------------------------------------
(* Specifications *)

InitBuilder ==
    /\ DEFAULTS = DefaultsTable
    /\ config = SectionNoChannels(EmptyDict)
    /\ call = NoCall
    /\ dirs = {}
    /\ written = <<>>
    /\ result = NoOutcome
    /\ ncalls = 0

InitValidator ==
    /\ vargs = NoArgs
    /\ vresult = NoResult

Init == InitBuilder /\ InitValidator

Call(inputs) ==
    /\ ncalls < MaxCalls
    /\ \E c \in inputs :
          generate_parameters_files(c.config, c.kwargs, c.version, c.channellimit)

\* Successive calls in one Python process
Next == Call(TimingCalls)

Spec == Init /\ [][Next]_vars

NextOverride == Call(OverrideCalls)

SpecOverride == Init /\ [][NextOverride]_vars

NextLegacy == Call(LegacyCalls)

SpecLegacy == Init /\ [][NextLegacy]_vars

\* One call on a freshly imported module, for every `channels` value
InitChunk ==
    /\ DEFAULTS = DefaultsTable
    /\ call \in ChunkCalls
    /\ config = call.config
    /\ dirs = {}
    /\ written = <<>>
    /\ result = NoOutcome
    /\ ncalls = 0
    /\ InitValidator

NextChunk ==
    /\ ncalls = 0
    /\ generate_parameters_files(call.config, call.kwargs, call.version,
                                 call.channellimit)

SpecChunk == InitChunk /\ [][NextChunk]_vars

\* validate_parameters applied to every argument tuple of the bounds
InitValidate ==
    /\ InitBuilder
    /\ vargs \in {a \in ValidateArgs : WellFormedArgs(a)}
    /\ vresult = NoResult

NextValidate == validate_parameters

SpecValidate == InitValidate /\ [][NextValidate]_vars

---------------------------------------------------------------------------
(* Vocabulary of the properties *)

Returned == result.status = "returned"

\* a line <<group, attribute, value>> of file j
FileNumbers == 1 .. Len(written)

HasLine(j, group, attr) ==
    \E line \in written[j].lines : line[1] = group /\ line[2] = attr

\* the channel list the call works on (line 116)
CallChannels == Split(call.config.channels)

RECURSIVE Flatten(_)
Flatten(ss) == IF ss = <<>> THEN <<>> ELSE Head(ss) \o Flatten(Tail(ss))

CeilDiv(n, l) == (n + l - 1) \div l

NoDuplicates(s) == \A i, j \in 1 .. Len(s) : s[i] = s[j] => i = j

Chunks == [j \in 1 .. Len(result.parfiles) |-> result.parfiles[j][2]]

---------------------------------------------------------------------------
---------------------------------------------------------------------------
(* C2: the calls are stateless: whatever calls came before, a call emits    *)
(* the files and returns the list that the same call makes on the           *)
(* compiled-in default table.                                               *)
C2_SameAsOnFreshTable ==
    ncalls > 0 =>
        LET fresh == generate(DefaultsTable, call.config, call.kwargs,
                              call.version, call.channellimit)
        IN  /\ written = fresh.written
            /\ result = fresh.result

---------------------------------------------------------------------------
(* C3: a call with version < 'v2r2' that returns has written the supplied   *)
(* CHUNKDURATION, SEGMENTDURATION and OVERLAPDURATION verbatim and no       *)
(* TIMING or PSDLENGTH line; a call with version >= 'v2r2' that returns has *)
(* written none of the three, and PSDLENGTH = chunk duration,               *)
(* TIMING = '<segment> <overlap>' and FFTPLAN (FFTW_ESTIMATE unless the     *)
(* call supplies one).                                                      *)

\* the call supplies key k: in the overrides, else in the section
InCall(k) == k \in DOMAIN call.kwargs \/ k \in DOMAIN call.config.opt

\* the value the call supplies for k (overrides win)
CallValue(k) ==
    IF k \in DOMAIN call.kwargs THEN call.kwargs[k] ELSE call.config.opt[k]

IsSet(k) == InCall(k) /\ CallValue(k) \notin {PyNone, "None", "none", ""}

C3_VersionBranch ==
    Returned => \A j \in FileNumbers :
        LET lines == written[j].lines
        IN  IF StrLess(call.version, <<"v", "2", "r", "2">>)
            THEN /\ IsSet("chunk-duration") =>
                      <<"PARAMETER", "CHUNKDURATION", CallValue("chunk-duration")>> \in lines
                 /\ IsSet("segment-duration") =>
                      <<"PARAMETER", "SEGMENTDURATION", CallValue("segment-duration")>> \in lines
                 /\ IsSet("overlap-duration") =>
                      <<"PARAMETER", "OVERLAPDURATION", CallValue("overlap-duration")>> \in lines
                 /\ ~HasLine(j, "PARAMETER", "TIMING")
                 /\ ~HasLine(j, "PARAMETER", "PSDLENGTH")
            ELSE /\ ~HasLine(j, "PARAMETER", "CHUNKDURATION")
                 /\ ~HasLine(j, "PARAMETER", "SEGMENTDURATION")
                 /\ ~HasLine(j, "PARAMETER", "OVERLAPDURATION")
                 /\ IsSet("chunk-duration") /\ IsSet("segment-duration")
                 /\ IsSet("overlap-duration")
                 /\ <<"PARAMETER", "PSDLENGTH", CallValue("chunk-duration")>> \in lines
                 /\ <<"PARAMETER", "TIMING",
                      CallValue("segment-duration") \o " " \o
                      CallValue("overlap-duration")>> \in lines
                 /\ <<"PARAMETER", "FFTPLAN",
                      IF IsSet("fftplan") THEN CallValue("fftplan")
                      ELSE "FFTW_ESTIMATE">> \in lines

---------------------------------------------------------------------------
(* C4: a call with version >= 'v2r2' whose own section and overrides do not *)
(* supply all three of chunk-duration, segment-duration, overlap-duration   *)
(* fails with a KeyError, returns no list and writes no file, whatever      *)
(* calls came before.                                                       *)
C4_MissingDurationsFail ==
    (/\ ncalls > 0
     /\ ~StrLess(call.version, <<"v", "2", "r", "2">>)
     /\ \E k \in {"chunk-duration", "segment-duration", "overlap-duration"} :
            ~InCall(k))
    => /\ result.status = "KeyError"
       /\ result.parfiles = <<>>
       /\ written = <<>>

---------------------------------------------------------------------------
(* C5 as stated: for a key supplied in the section and in the overrides     *)
(* (the same key after hyphen-stripping and upper-casing), every line       *)
(* written for that attribute carries the override value.                   *)
C5_OverrideWinsByAttribute ==
    Returned =>
        \A kb \in DOMAIN call.config.opt, ko \in DOMAIN call.kwargs :
            okey(kb) = okey(ko) =>
                \A j \in FileNumbers : \A line \in written[j].lines :
                    line[2] = okey(ko) => line[3] = call.kwargs[ko]

\* the group and attribute a key is written to (lines 127-136)
Destination(key) ==
    IF key = "sample-frequency" THEN <<"DATA", "SAMPLEFREQUENCY">>
    ELSE <<"PARAMETER", okey(key)>>

\* the attributes that lines 141-145 assign for version >= 'v2r2'
Rebuilt(dest) ==
    /\ ~StrLess(call.version, <<"v", "2", "r", "2">>)
    /\ dest \in {<<"PARAMETER", "PSDLENGTH">>, <<"PARAMETER", "TIMING">>}

(* C5 amended: for a key supplied in the section and in the overrides that  *)
(* both are written to the same group and attribute, every line written     *)
(* for that group and attribute carries the override value; excepted are    *)
(* PARAMETER PSDLENGTH and PARAMETER TIMING under version >= 'v2r2', which  *)
(* are rebuilt from the durations.                                          *)
C5_OverrideWinsByDestination ==
    Returned =>
        \A kb \in DOMAIN call.config.opt, ko \in DOMAIN call.kwargs :
            (Destination(kb) = Destination(ko) /\ ~Rebuilt(Destination(ko))) =>
                \A j \in FileNumbers : \A line \in written[j].lines :
                    <<line[1], line[2]>> = Destination(ko)
                        => line[3] = call.kwargs[ko]

\* clustering = 1 in the section, clustering = 2 in the overrides, written as 2
C5_Witness ==
    /\ Returned
    /\ "clustering" \in DOMAIN call.config.opt
    /\ call.config.opt["clustering"] = "1"
    /\ "clustering" \in DOMAIN call.kwargs
    /\ call.kwargs["clustering"] = "2"
    /\ Len(written) = 1
    /\ <<"PARAMETER", "CLUSTERING", "2">> \in written[1].lines

---------------------------------------------------------------------------
(* C6 as stated: for a key with a compiled-in default in any group, when    *)
(* the value the call supplies for it is an unset sentinel, no line is      *)
(* written for that attribute.                                              *)
C6_UnsetRemovesAnyDefault ==
    Returned =>
        \A k \in (DOMAIN call.config.opt) \cup (DOMAIN call.kwargs) :
            (/\ okey(k) \in {"CLUSTERING", "PRODUCTS", "VERBOSITY", "FORMAT",
                             "NTRIGGERMAX"}
             /\ CallValue(k) \in {PyNone, "None", "none", ""})
            => \A j \in FileNumbers : \A line \in written[j].lines :
                   line[2] # okey(k)

(* C6 amended: for the key whose compiled-in default is in the PARAMETER    *)
(* group (CLUSTERING), when the value the call supplies for it (overrides   *)
(* after the section) is an unset sentinel, no PARAMETER line is written    *)
(* for that attribute.                                                      *)
C6_UnsetRemovesParameterDefault ==
    Returned =>
        \A k \in (DOMAIN call.config.opt) \cup (DOMAIN call.kwargs) :
            (/\ okey(k) = "CLUSTERING"
             /\ CallValue(k) \in {PyNone, "None", "none", ""})
            => \A j \in FileNumbers : ~HasLine(j, "PARAMETER", "CLUSTERING")

\* the first call unsets clustering with '': its file has no CLUSTERING line
C6_Witness ==
    /\ Returned
    /\ ncalls = 1
    /\ "clustering" \in DOMAIN call.config.opt
    /\ call.config.opt["clustering"] = ""
    /\ "clustering" \notin DOMAIN call.kwargs
    /\ Len(written) = 1
    /\ ~HasLine(1, "PARAMETER", "CLUSTERING")

---------------------------------------------------------------------------
(* C9: for (frequency-range, flow, fhigh) and (q-range, qlow, qhigh): when  *)
(* the section has both bounds and not the combined option, a call that     *)
(* returns has written the combined attribute as '<low> <high>' and no line *)
(* for the bounds; when a bound is absent the call raises no error for it   *)
(* and sets no combined option.                                             *)
C9_LegacyRanges ==
    ncalls > 0 =>
        \A t \in {<<"frequency-range", "flow", "fhigh", "FREQUENCYRANGE", "FLOW", "FHIGH">>,
                  <<"q-range", "qlow", "qhigh", "QRANGE", "QLOW", "QHIGH">>} :
            LET opt   == call.config.opt
                has(k) == k \in DOMAIN opt
            IN  /\ (/\ Returned
                    /\ ~has(t[1]) /\ has(t[2]) /\ has(t[3])
                    /\ opt[t[2]] \in DOMAIN FloatStr /\ opt[t[3]] \in DOMAIN FloatStr)
                   => \A j \in FileNumbers :
                        /\ <<"PARAMETER", t[4],
                             FloatStr[opt[t[2]]] \o " " \o FloatStr[opt[t[3]]]>>
                               \in written[j].lines
                        /\ ~HasLine(j, "PARAMETER", t[5])
                        /\ ~HasLine(j, "PARAMETER", t[6])
                /\ (~has(t[2]) \/ ~has(t[3]))
                   => /\ ~(result.status = "NoOptionError" /\ result.key \in {t[2], t[3]})
                      /\ (~has(t[1]) => t[1] \notin DOMAIN config.opt)

---------------------------------------------------------------------------
(* Vocabulary of the validator's properties, written from the statement of *)
(* the checks *)

Validated == vresult.status # "none"

NoFrequencyArgs == ~vargs.has_sampling \/ ~vargs.has_frange

\* the lowest-numbered check of 1..6 that (c, s, o) violates, 0 if none
FirstViolated(c, s, o) ==
    IF ~(s <= c) THEN 1
    ELSE IF ~(o <= s) THEN 2
    ELSE IF o = 0 THEN 3
    ELSE IF o % 2 # 0 THEN 4
    ELSE IF ~(s >= 2 * o) THEN 5
    ELSE IF s - o <= 0 THEN 6
    ELSE IF (c - o) % (s - o) # 0 THEN 6
    ELSE 0

Reason(n) ==
    CASE n = 1 -> "Segment length is greater than chunk length"
      [] n = 2 -> "Overlap length is greater than segment length"
      [] n = 3 -> "Omicron cannot run with zero overlap"
      [] n = 4 -> "Padding (overlap/2) is non-integer"
      [] n = 5 -> "Overlap is too large, cannot be more than 50%"
      [] n = 6 -> "Chunk duration doesn't allow an integer number of segments"

---------------------------------------------------------------------------
---------------------------------------------------------------------------
(* C8: for arguments that pass checks 1-6, a positive integer sampling rate *)
(* and a frequency range starting at 1 Hz or above, the validator passes    *)
(* iff (chunk - overlap) * sampling >= 2 * (2 * sampling), that is iff      *)
(* chunk - overlap >= 4; when it fails it reports overlap + 4 as the        *)
(* minimum chunk duration.                                                  *)
C8_FrequencyBound ==
    (/\ Validated
     /\ vargs.has_sampling /\ vargs.has_frange
     /\ vargs.sampling >= 1
     /\ vargs.fnum >= vargs.fden
     /\ FirstViolated(vargs.chunk, vargs.segment, vargs.overlap) = 0)
    => LET c  == vargs.chunk
           o  == vargs.overlap
           sr == vargs.sampling
       IN  /\ (vresult.status = "returned") <=> ((c - o) * sr >= 2 * (2 * sr))
           /\ (vresult.status = "returned") <=> (c - o >= 4)
           /\ vresult.status # "returned" =>
                 /\ vresult.status = "AssertionError"
                 /\ vresult.line = 212
                 /\ vresult.value = o + 4

\* validate_parameters(4, 4, 2, (1, ...), 3): needs at least 6 s
C8_Witness ==
    /\ Validated
    /\ vargs.has_sampling /\ vargs.has_frange
    /\ vargs.sampling = 3 /\ vargs.fnum = 2 /\ vargs.fden = 2
    /\ vargs.chunk = 4 /\ vargs.segment = 4 /\ vargs.overlap = 2
    /\ vresult.status = "AssertionError"
    /\ vresult.value = 6

---------------------------------------------------------------------------
(* C10: for all integer chunk, segment and overlap, negative ones included, *)
(* checks 1-6 either pass or fail with one of the six assertion failures    *)
(* and never with another error.                                            *)
C10_OnlyAssertionFailures ==
    (Validated /\ NoFrequencyArgs) =>
        \/ vresult.status = "returned"
        \/ /\ vresult.status = "AssertionError"
           /\ vresult.msg \in {Reason(n) : n \in 1 .. 6}

====
